---- MODULE Spec2Model ----
(***************************************************************************)
(* Template segmentation (FileParserService) and report generation         *)
(* (ReportController / ReportGeneratorService) of First-Agentica.          *)
(*                                                                         *)
(* Strings are modelled as strings.  TLA+ string literals are ASCII, so    *)
(* every Hangul syllable of the source is written as one lower-case Latin  *)
(* letter (one UTF-16 unit each, so String.length is preserved) and the    *)
(* sample inputs use no lower-case Latin text of their own:                *)
(*     목표 = "mp"   개요 = "gy"   배경 = "bg"   결론 = "gr"   요약 = "yy"    *)
(*     전체 문서 = "jc ms"   내용을 입력하세요 = "nyr ibryhsy"              *)
(***************************************************************************)
EXTENDS Integers, Sequences, FiniteSets, TLC

VARIABLES hdrLine, hdrResult, hdrPc

hdrVars == <<hdrLine, hdrResult, hdrPc>>

VARIABLES segText, segResult, segPc

segVars == <<segText, segResult, segPc>>

VARIABLES synTemplate, synPrompt, synContext, synNow, synOut, synPc

synVars == <<synTemplate, synPrompt, synContext, synNow, synOut, synPc>>

VARIABLES templates, reports, nextUuid, clock, files, uploads, gens, lastRead

ctlVars == <<templates, reports, nextUuid, clock, files, uploads, gens, lastRead>>

vars == <<hdrVars, segVars, synVars, ctlVars>>

----------------------------------------------------------------------------
(* String primitives *)

Char(s, i) == SubSeq(s, i, i)

Max(S) == CHOOSE x \in S : \A y \in S : y <= x

Min(S) == CHOOSE x \in S : \A y \in S : x <= y

\* \s of a JavaScript regular expression, and the characters trim() strips
IsSpace(c) == c \in {" ", "\t", "\n", "\r"}

\* . of a JavaScript regular expression: anything but a line terminator
IsDot(c) == c \notin {"\n", "\r"}

IsDigit(c) == c \in {"0", "1", "2", "3", "4", "5", "6", "7", "8", "9"}

IsUpper(c) == c \in {"A", "B", "C", "D", "E", "F", "G", "H", "I", "J", "K", "L", "M",
                     "N", "O", "P", "Q", "R", "S", "T", "U", "V", "W", "X", "Y", "Z"}

\* [가-힣]: a Hangul syllable, written as a lower-case letter
IsHangul(c) == c \in {"a", "b", "c", "d", "e", "f", "g", "h", "i", "j", "k", "l", "m",
                      "n", "o", "p", "q", "r", "s", "t", "u", "v", "w", "x", "y", "z"}

\* String.prototype.trim
Trim(s) ==
    LET keep == {i \in 1..Len(s) : ~IsSpace(Char(s, i))}
    IN  IF keep = {} THEN "" ELSE SubSeq(s, Min(keep), Max(keep))

\* String.prototype.includes
Includes(s, k) ==
    \E i \in 1..(Len(s) - Len(k) + 1) : SubSeq(s, i, i + Len(k) - 1) = k

\* String.prototype.startsWith
StartsWith(s, k) == Len(s) >= Len(k) /\ SubSeq(s, 1, Len(k)) = k

\* String.prototype.split('\n')
SplitLines(s) ==
    LET nl     == {i \in 1..Len(s) : Char(s, i) = "\n"}
        n      == Cardinality(nl)
        Pos(k) == IF k = 0 THEN 0
                  ELSE IF k = n + 1 THEN Len(s) + 1
                  ELSE CHOOSE p \in nl : Cardinality({q \in nl : q < p}) = k - 1
    IN  [k \in 1..(n + 1) |-> SubSeq(s, Pos(k - 1) + 1, Pos(k) - 1)]

\* Array.prototype.join('\n')
RECURSIVE JoinLines(_)
JoinLines(ls) ==
    IF ls = <<>> THEN ""
    ELSE IF Len(ls) = 1 THEN ls[1]
    ELSE ls[1] \o "\n" \o JoinLines(Tail(ls))

\* a truthiness test of a string: only the empty string is falsy
Truthy(s) == s # ""

----------------------------------------------------------------------------
(* FileParserService.isHeader *)

\* the tail  \s+.+  of a pattern, matched from position i of line
SpaceThenText(line, i) ==
    \E m \in i..(Len(line) - 1) :
        /\ \A j \in i..m : IsSpace(Char(line, j))
        /\ IsDot(Char(line, m + 1))

\* /^\d+\.\s+.+/
PatNumbered(line) ==
    \E k \in 1..Len(line) :
        /\ \A j \in 1..k : IsDigit(Char(line, j))
        /\ Char(line, k + 1) = "."
        /\ SpaceThenText(line, k + 2)

\* /^[가-힣]\.\s+.+/
PatHangul(line) ==
    /\ Len(line) >= 2
    /\ IsHangul(Char(line, 1))
    /\ Char(line, 2) = "."
    /\ SpaceThenText(line, 3)

\* /^[A-Z]\.\s+.+/
PatAlpha(line) ==
    /\ Len(line) >= 2
    /\ IsUpper(Char(line, 1))
    /\ Char(line, 2) = "."
    /\ SpaceThenText(line, 3)

\* /^#{1,6}\s+.+/
PatMarkdown(line) ==
    \E h \in 1..6 :
        /\ h <= Len(line)
        /\ \A j \in 1..h : Char(line, j) = "#"
        /\ SpaceThenText(line, h + 1)

ColonMaxPrefix == 50

\* /^.{1,50}:$/
\* the pattern without its length limit, /^.+:$/
PatColonUnbounded(line) ==
    /\ Len(line) >= 2
    /\ Char(line, Len(line)) = ":"
    /\ \A j \in 1..(Len(line) - 1) : IsDot(Char(line, j))

PatColon(line) ==
    /\ Len(line) >= 2
    /\ Len(line) - 1 <= ColonMaxPrefix
    /\ Char(line, Len(line)) = ":"
    /\ \A j \in 1..(Len(line) - 1) : IsDot(Char(line, j))

\* /^[[\]【】]\s*.+\s*[[\]】]/   (【 and 】 are written "{" and "}")
PatBracket(line) ==
    /\ Len(line) >= 3
    /\ Char(line, 1) \in {"[", "]", "{", "}"}
    /\ \E j \in 3..Len(line) :
          /\ Char(line, j) \in {"[", "]", "}"}
          /\ \A i \in 2..(j - 1) : IsDot(Char(line, i))

headerPatterns(line) ==
    \/ PatNumbered(line)
    \/ PatHangul(line)
    \/ PatAlpha(line)
    \/ PatMarkdown(line)
    \/ PatColon(line)
    \/ PatBracket(line)

KeywordMaxLen == 100

\* the keyword clause, with the precedence JavaScript gives && over ||
keywordClause(line) ==
    \/ (Len(line) < KeywordMaxLen /\ Includes(line, "mp"))
    \/ Includes(line, "gy")
    \/ Includes(line, "bg")
    \/ Includes(line, "gr")
    \/ Includes(line, "yy")

isHeader(line) == headerPatterns(line) \/ keywordClause(line)

----------------------------------------------------------------------------
(* FileParserService.extractSections *)

SectionTypes == {"header", "content", "table", "list", "image"}

\* `[${trimmedLine} 내용을 입력하세요]`
HeaderPlaceholder(trimmedLine) == "[" \o trimmedLine \o " nyr ibryhsy]"

\* the section opened on a header line
NewSection(trimmedLine, order) ==
    [title       |-> trimmedLine,
     placeholder |-> HeaderPlaceholder(trimmedLine),
     order       |-> order,
     type        |-> "header"]

\* AddContent without the promotion to content
AddContentKeepsType(currentSection, trimmedLine) ==
    [currentSection EXCEPT
        !.placeholder = IF ~Truthy(@) THEN trimmedLine ELSE @]

\* the update of the open section on a body line
AddContent(currentSection, trimmedLine) ==
    [currentSection EXCEPT
        !.type        = "content",
        !.placeholder = IF ~Truthy(@) THEN trimmedLine ELSE @]

\* DefaultSection typed as the sections opened on a header line are
DefaultSectionTypedHeader ==
    [title       |-> "jc ms",
     placeholder |-> "[bgs nyr ibryhsy]",
     order       |-> 0,
     type        |-> "header"]

\* the section pushed when no header was found
DefaultSection ==
    [title       |-> "jc ms",
     placeholder |-> "[bgs nyr ibryhsy]",
     order       |-> 0,
     type        |-> "content"]

\* content.split('\n').filter(line => line.trim())
NonBlankLines(content) ==
    SelectSeq(SplitLines(content), LAMBDA line : Truthy(Trim(line)))

\* the loop state: the sections pushed so far, the open section (a sequence
\* of length 0 for null, 1 otherwise) and the order counter
ScanInit == [sections |-> <<>>, currentSection |-> <<>>, order |-> 0]

\* ScanLine that opens a section for a line met while none is open
ScanLineOpensOnAnyLine(st, line) ==
    LET trimmedLine == Trim(line)
    IN  IF isHeader(trimmedLine) \/ st.currentSection = <<>>
        THEN [sections       |-> st.sections \o st.currentSection,
              currentSection |-> <<NewSection(trimmedLine, st.order)>>,
              order          |-> st.order + 1]
        ELSE IF st.currentSection # <<>> /\ Truthy(trimmedLine)
        THEN [st EXCEPT !.currentSection =
                            <<AddContent(st.currentSection[1], trimmedLine)>>]
        ELSE st

\* ScanLine with order instead of order++
ScanLineSameOrder(st, line) ==
    LET trimmedLine == Trim(line)
    IN  IF isHeader(trimmedLine)
        THEN [sections       |-> st.sections \o st.currentSection,
              currentSection |-> <<NewSection(trimmedLine, st.order)>>,
              order          |-> st.order]
        ELSE IF st.currentSection # <<>> /\ Truthy(trimmedLine)
        THEN [st EXCEPT !.currentSection =
                            <<AddContent(st.currentSection[1], trimmedLine)>>]
        ELSE st

\* one iteration of the for loop
ScanLine(st, line) ==
    LET trimmedLine == Trim(line)
    IN  IF isHeader(trimmedLine)
        THEN [sections       |-> st.sections \o st.currentSection,
              currentSection |-> <<NewSection(trimmedLine, st.order)>>,
              order          |-> st.order + 1]
        ELSE IF st.currentSection # <<>> /\ Truthy(trimmedLine)
        THEN [st EXCEPT !.currentSection =
                            <<AddContent(st.currentSection[1], trimmedLine)>>]
        ELSE st

RECURSIVE ScanLines(_, _, _)
ScanLines(st, lines, i) ==
    IF i > Len(lines) THEN st
    ELSE ScanLines(ScanLine(st, lines[i]), lines, i + 1)

extractSections(content) ==
    LET st       == ScanLines(ScanInit, NonBlankLines(content), 1)
        sections == st.sections \o st.currentSection
    IN  IF Len(sections) = 0 THEN <<DefaultSection>> ELSE sections

----------------------------------------------------------------------------
(* ReportGeneratorService.generateContentForTemplate *)

\* template.sections.sort((a, b) => a.order - b.order): Array.prototype.sort
\* is stable, so a section goes after every section of lower or equal order
\* already placed
InsertByOrder(sorted, section) ==
    LET before == {i \in 1..Len(sorted) : sorted[i].order <= section.order}
        k      == IF before = {} THEN 0 ELSE Max(before)
    IN  SubSeq(sorted, 1, k) \o <<section>> \o SubSeq(sorted, k + 1, Len(sorted))

RECURSIVE SortFrom(_, _, _)
SortFrom(sorted, sections, i) ==
    IF i > Len(sections) THEN sorted
    ELSE SortFrom(InsertByOrder(sorted, sections[i]), sections, i + 1)

\* a sort whose comparator makes it reverse the array it is given
SortReverses(sections) ==
    [i \in 1..Len(sections) |-> sections[Len(sections) + 1 - i]]

\* a sort with the comparator (a, b) => b.order - a.order
SortDescending(sections) ==
    LET sorted == SortFrom(<<>>, sections, 1)
    IN  [i \in 1..Len(sorted) |-> sorted[Len(sorted) + 1 - i]]

SortByOrder(sections) == SortFrom(<<>>, sections, 1)

\* case "content": `[${userPrompt}와 관련된 ${section.title} 내용이 여기에 작성됩니다.]\n\n`
ContentBlock(userPrompt, title) ==
    "[" \o userPrompt \o "w grd " \o title \o " nyi ygn jsdnd.]\n\n"

\* case "table"
TableBlock ==
    "| hm | ny | bg |\n|------|------|------|\n"
    \o "| ys1 | dit1 | sm1 |\n| ys2 | dit2 | sm2 |\n\n"

\* case "list"
ListBlock == "- c bj hm\n- d bj hm\n- s bj hm\n\n"

\* the switch on section.type
TypeBlock(section, userPrompt) ==
    CASE section.type = "content" -> ContentBlock(userPrompt, section.title)
      [] section.type = "table"   -> TableBlock
      [] section.type = "list"    -> ListBlock
      [] OTHER                    -> ""

\* one iteration of the loop over the sorted sections
SectionBlock(section, userPrompt) ==
    "## " \o section.title \o "\n\n"
    \o (IF section.type = "header"
        THEN "### " \o section.title \o " ss\n\n"
        ELSE "")
    \o section.placeholder \o "\n\n"
    \o TypeBlock(section, userPrompt)

RECURSIVE SectionBlocks(_, _, _)
SectionBlocks(sections, userPrompt, i) ==
    IF i > Len(sections) THEN ""
    ELSE SectionBlock(sections[i], userPrompt)
         \o SectionBlocks(sections, userPrompt, i + 1)

\* new Date().toLocaleString() at time now
LocaleString(now) == "D" \o ToString(now)

\* `# ${template.filename}에 기반한 보고서\n\n`
ReportHeading(filename) == "# " \o filename \o "e gbh bgs\n\n"

\* the prefix of the timestamp line of the footer: **보고서 생성 완료**:
FooterStamp == "**bgs ss wr**: "

\* the two footer lines
ReportFooter(filename, now) ==
    "\n---\n" \o FooterStamp \o LocaleString(now) \o "\n"
    \o "**gb tpr**: " \o filename \o "\n"

\* JSON.stringify(context, null, 2) throws a TypeError on a value JSON cannot
\* express (a circular structure, a BigInt)
Contexts == {"undefined", "json", "circular"}

StringifyThrows(context) == context = "circular"

\* The call: what it returns or throws, and the sections array of the
\* template afterwards (sort() sorts the template's own array in place; the
\* system prompt, with JSON.stringify, is built before the sort).
generateContentForTemplate(template, userPrompt, context, now) ==
    IF StringifyThrows(context)
    THEN [threw    |-> TRUE,
          error    |-> "Converting circular structure to JSON",
          content  |-> "",
          sections |-> template.sections]
    ELSE LET sorted == SortByOrder(template.sections)
         IN  [threw    |-> FALSE,
              error    |-> "",
              content  |-> ReportHeading(template.filename)
                           \o SectionBlocks(sorted, userPrompt, 1)
                           \o ReportFooter(template.filename, now),
              sections |-> sorted]

----------------------------------------------------------------------------
(* ReportController and ReportGeneratorService: the two registries and the  *)
(* calls in flight.  A call runs without interruption up to an await and    *)
(* from an await to the next one or to its return.                          *)

MaxClock == 2

\* free-text prompts: one line, and two lines the second of which starts as
\* a markdown heading
SamplePrompts == {"Q3 SALES", "PLAN\n## RISKS"}

MaxUploads == 2

MaxGens == 2

\* an identifier generator that repeats itself
UuidRepeats(n) == "id1"

\* uuidv4(): the n-th identifier drawn; no two draws give the same
Uuid(n) == "id" \o ToString(n)

\* texts the external extractors (pdf-parse, mammoth) hand back
UploadTexts == {"1. mp\nSALES UP\nNOTE:", "FREE TEXT"}

\* String.prototype.toLowerCase on the extensions that occur
ToLowerCase(ext) ==
    CASE ext = ".PDF"  -> ".pdf"
      [] ext = ".DOCX" -> ".docx"
      [] OTHER         -> ext

\* path.extname(originalName).toLowerCase(): from the last dot on, unless
\* the name has no dot or only a leading one
ExtName(originalName) ==
    LET dots == {i \in 1..Len(originalName) : Char(originalName, i) = "."}
    IN  IF dots = {} \/ Max(dots) = 1 THEN ""
        ELSE ToLowerCase(SubSeq(originalName, Max(dots), Len(originalName)))

NoTemplate == [filename |-> "", type |-> "", content |-> "", sections |-> <<>>]

\* FileParserService.parseFile: extracted is the text the extractor returns,
\* or "corrupt" when it throws
parseFile(originalName, extracted) ==
    LET fileExtension == ExtName(originalName)
    IN  IF fileExtension \notin {".pdf", ".docx"}
        THEN [threw |-> TRUE, error |-> "Unsupported file type", template |-> NoTemplate]
        ELSE IF extracted = "corrupt"
        THEN [threw |-> TRUE, error |-> "Corrupt document", template |-> NoTemplate]
        ELSE [threw |-> FALSE, error |-> "",
              template |-> [filename |-> originalName,
                            type     |-> IF fileExtension = ".pdf" THEN "pdf" ELSE "docx",
                            content  |-> extracted,
                            sections |-> extractSections(extracted)]]

\* FileParserService.cleanupFile: unlink the file if it exists; never throws
cleanupFile(onDisk, filePath) == onDisk \ {filePath}

NoParse == [threw |-> FALSE, error |-> "", template |-> NoTemplate]

NoPending == [threw |-> FALSE, error |-> "", content |-> "", sections |-> <<>>]

NoResponse == [reportId |-> "", status |-> "none", content |-> "", error |-> ""]

\* the report object built at the start of generateReport
NewReport(reportId, title, templateId, now) ==
    [id           |-> reportId,
     title        |-> title,
     template     |-> templateId,
     content      |-> "",
     status       |-> "processing",
     created_at   |-> now,
     completed_at |-> 0]

\* CompleteReport without the completed_at assignment
CompleteReportNoStamp(report, generatedContent, now) ==
    [report EXCEPT !.content = generatedContent,
                   !.status  = "completed"]

\* the update of the report object after content assembly
CompleteReport(report, generatedContent, now) ==
    [report EXCEPT !.content      = generatedContent,
                   !.status       = "completed",
                   !.completed_at = now]

\* the report registry after the catch block of generateReport has run for
\* the attempt that stored reportId: the catch block only builds the response
ReportsAfterCatch(registry, reportId) == registry

\* Map.prototype.set
MapSet(map, key, value) ==
    [k \in DOMAIN map \cup {key} |-> IF k = key THEN value ELSE map[k]]

\* the values of the variables a specification does not use
HdrIdle ==
    /\ hdrLine = ""
    /\ hdrResult = FALSE
    /\ hdrPc = "idle"

SegIdle ==
    /\ segText = ""
    /\ segResult = <<>>
    /\ segPc = "idle"

SynIdle ==
    /\ synTemplate = NoTemplate
    /\ synPrompt = ""
    /\ synContext = "undefined"
    /\ synNow = 0
    /\ synOut = NoPending
    /\ synPc = "idle"

CtlInit ==
    /\ templates = <<>>
    /\ reports = <<>>
    /\ nextUuid = 1
    /\ clock = 1
    /\ files = {}
    /\ uploads = <<>>
    /\ gens = <<>>
    /\ lastRead = {}

\* the fileFilter of the multer interceptor
fileFilter(originalName) == ExtName(originalName) \in {".pdf", ".docx"}

\* the multer interceptor stores the file; uploadTemplate runs up to the
\* await of parseFile (whose extractor call is asynchronous)
UploadCall(originalName, extracted) ==
    /\ Len(uploads) < MaxUploads
    /\ fileFilter(originalName)
    /\ LET path == "up" \o ToString(Len(uploads) + 1)
       IN  /\ files' = files \cup {path}
           /\ uploads' = Append(uploads,
                  [path |-> path, originalName |-> originalName,
                   parsed |-> parseFile(originalName, extracted),
                   pc |-> "parsing", templateId |-> "", error |-> ""])
    /\ UNCHANGED <<hdrVars, segVars, synVars, templates, reports, nextUuid, clock, gens, lastRead>>

\* the fileFilter rejects the upload: no file is stored and uploadTemplate is
\* not called; the uploader gets the filter's error
UploadFiltered(originalName) ==
    /\ Len(uploads) < MaxUploads
    /\ ~fileFilter(originalName)
    /\ uploads' = Append(uploads,
           [path |-> "", originalName |-> originalName,
            parsed |-> NoParse,
            pc |-> "thrown", templateId |-> "",
            error |-> "Only PDF and DOCX files are allowed"])
    /\ UNCHANGED <<hdrVars, segVars, synVars, templates, reports, nextUuid, clock, files, gens, lastRead>>

\* uploadTemplate called without a file: throws "No file uploaded"
UploadNoFile ==
    /\ Len(uploads) < MaxUploads
    /\ uploads' = Append(uploads,
           [path |-> "", originalName |-> "",
            parsed |-> NoParse,
            pc |-> "thrown", templateId |-> "", error |-> "No file uploaded"])
    /\ UNCHANGED <<hdrVars, segVars, synVars, templates, reports, nextUuid, clock, files, gens, lastRead>>

\* UploadParsed whose catch block rethrows without calling cleanupFile
UploadParsedLeaksOnError(k) ==
    /\ k \in 1..Len(uploads)
    /\ uploads[k].pc = "parsing"
    /\ IF uploads[k].parsed.threw
       THEN /\ uploads' = [uploads EXCEPT ![k].pc = "cleanup_catch",
                                          ![k].error = uploads[k].parsed.error]
            /\ UNCHANGED <<templates, nextUuid, files>>
       ELSE /\ files' = cleanupFile(files, uploads[k].path)
            /\ templates' = MapSet(templates, Uuid(nextUuid), uploads[k].parsed.template)
            /\ nextUuid' = nextUuid + 1
            /\ uploads' = [uploads EXCEPT ![k].pc = "cleanup",
                                          ![k].templateId = Uuid(nextUuid)]
    /\ UNCHANGED <<hdrVars, segVars, synVars, reports, clock, gens, lastRead>>

\* parseFile settles: on success the template is stored under a new id and
\* cleanupFile is called; on failure the catch block calls cleanupFile
UploadParsed(k) ==
    /\ k \in 1..Len(uploads)
    /\ uploads[k].pc = "parsing"
    /\ files' = cleanupFile(files, uploads[k].path)
    /\ IF uploads[k].parsed.threw
       THEN /\ uploads' = [uploads EXCEPT ![k].pc = "cleanup_catch",
                                          ![k].error = uploads[k].parsed.error]
            /\ UNCHANGED <<templates, nextUuid>>
       ELSE /\ templates' = MapSet(templates, Uuid(nextUuid), uploads[k].parsed.template)
            /\ nextUuid' = nextUuid + 1
            /\ uploads' = [uploads EXCEPT ![k].pc = "cleanup",
                                          ![k].templateId = Uuid(nextUuid)]
    /\ UNCHANGED <<hdrVars, segVars, synVars, reports, clock, gens, lastRead>>

\* after the await of cleanupFile: return the template, or rethrow
UploadReturn(k) ==
    /\ k \in 1..Len(uploads)
    /\ uploads[k].pc \in {"cleanup", "cleanup_catch"}
    /\ uploads' = [uploads EXCEPT ![k].pc =
                      IF uploads[k].pc = "cleanup" THEN "returned" ELSE "thrown"]
    /\ UNCHANGED <<hdrVars, segVars, synVars, templates, reports, nextUuid, clock, files, gens, lastRead>>

\* GenCall with the report id drawn and the report stored before the lookup
GenCallStoresFirst(templateId, title, prompt, context) ==
    /\ Len(gens) < MaxGens
    /\ LET reportId == Uuid(nextUuid)
       IN  /\ nextUuid' = nextUuid + 1
           /\ reports' = MapSet(reports, reportId,
                                NewReport(reportId, title, templateId, clock))
           /\ IF templateId \notin DOMAIN templates
              THEN /\ gens' = Append(gens,
                          [templateId |-> templateId, title |-> title, prompt |-> prompt,
                           context |-> context, pc |-> "returned", reportId |-> "",
                           pending |-> NoPending,
                           response |-> [NoResponse EXCEPT !.status = "failed",
                                                           !.error = "Template not found"]])
                   /\ UNCHANGED templates
              ELSE LET out == generateContentForTemplate(
                                  templates[templateId], prompt, context, clock)
                   IN  /\ templates' = [templates EXCEPT ![templateId].sections = out.sections]
                       /\ gens' = Append(gens,
                              [templateId |-> templateId, title |-> title, prompt |-> prompt,
                               context |-> context, pc |-> "await", reportId |-> reportId,
                               pending |-> out, response |-> NoResponse])
    /\ UNCHANGED <<hdrVars, segVars, synVars, clock, files, uploads, lastRead>>

\* generateReport up to the await of generateContentForTemplate: the lookup,
\* and for a known template the report stored as processing and the
\* synchronous body of generateContentForTemplate
GenCall(templateId, title, prompt, context) ==
    /\ Len(gens) < MaxGens
    /\ IF templateId \notin DOMAIN templates
       THEN /\ gens' = Append(gens,
                   [templateId |-> templateId, title |-> title, prompt |-> prompt,
                    context |-> context, pc |-> "returned", reportId |-> "",
                    pending |-> NoPending,
                    response |-> [NoResponse EXCEPT !.status = "failed",
                                                    !.error = "Template not found"]])
            /\ UNCHANGED <<templates, reports, nextUuid>>
       ELSE LET reportId == Uuid(nextUuid)
                out      == generateContentForTemplate(
                                templates[templateId], prompt, context, clock)
            IN  /\ nextUuid' = nextUuid + 1
                /\ reports' = MapSet(reports, reportId,
                                     NewReport(reportId, title, templateId, clock))
                /\ templates' = [templates EXCEPT ![templateId].sections = out.sections]
                /\ gens' = Append(gens,
                       [templateId |-> templateId, title |-> title, prompt |-> prompt,
                        context |-> context, pc |-> "await", reportId |-> reportId,
                        pending |-> out, response |-> NoResponse])
    /\ UNCHANGED <<hdrVars, segVars, synVars, clock, files, uploads, lastRead>>

\* generateReport after the await: the report completed and stored again,
\* or the catch block
GenResume(k) ==
    /\ k \in 1..Len(gens)
    /\ gens[k].pc = "await"
    /\ IF gens[k].pending.threw
       THEN /\ reports' = ReportsAfterCatch(reports, gens[k].reportId)
            /\ gens' = [gens EXCEPT
                   ![k].pc = "returned",
                   ![k].response = [NoResponse EXCEPT !.status = "failed",
                                                      !.error = gens[k].pending.error]]
       ELSE /\ reports' = MapSet(reports, gens[k].reportId,
                              CompleteReport(reports[gens[k].reportId],
                                             gens[k].pending.content, clock))
            /\ gens' = [gens EXCEPT
                   ![k].pc = "returned",
                   ![k].response = [NoResponse EXCEPT
                                       !.reportId = gens[k].reportId,
                                       !.status = "completed",
                                       !.content = gens[k].pending.content]]
    /\ UNCHANGED <<hdrVars, segVars, synVars, templates, nextUuid, clock, files, uploads, lastRead>>

\* GET reports/:id
getReport(id) ==
    /\ lastRead' = IF id \in DOMAIN reports THEN {reports[id]} ELSE {}
    /\ UNCHANGED <<hdrVars, segVars, synVars, templates, reports, nextUuid, clock, files, uploads, gens>>

\* GET reports
getReports ==
    /\ lastRead' = {reports[id] : id \in DOMAIN reports}
    /\ UNCHANGED <<hdrVars, segVars, synVars, templates, reports, nextUuid, clock, files, uploads, gens>>

\* time passes between two readings of new Date()
Tick ==
    /\ clock < MaxClock
    /\ clock' = clock + 1
    /\ UNCHANGED <<hdrVars, segVars, synVars, templates, reports, nextUuid, files, uploads, gens, lastRead>>

UploadNames == {"a.pdf", "c.txt"}

\* request contexts: none, and one JSON.stringify throws on
GenContexts == {"undefined", "circular"}

GenTitles == {"Q3"}

Init ==
    /\ CtlInit
    /\ HdrIdle
    /\ SegIdle
    /\ SynIdle

Next ==
    \/ \E n \in UploadNames, x \in UploadTexts \cup {"corrupt"} : UploadCall(n, x)
    \/ \E n \in UploadNames : UploadFiltered(n)
    \/ UploadNoFile
    \/ \E k \in 1..MaxUploads : UploadParsed(k)
    \/ \E k \in 1..MaxUploads : UploadReturn(k)
    \/ \E t \in DOMAIN templates \cup {"nope"}, ti \in GenTitles,
          p \in SamplePrompts, c \in GenContexts : GenCall(t, ti, p, c)
    \/ \E k \in 1..MaxGens : GenResume(k)
    \/ \E id \in DOMAIN reports \cup {"nope"} : getReport(id)
    \/ getReports
    \/ Tick

Spec == Init /\ [][Next]_vars

----------------------------------------------------------------------------
(* Segmentation of bounded input texts *)

MaxLines == 4

\* raw input lines: blank, whitespace only, headers of several kinds (one
\* padded with whitespace), body lines
SampleLines ==
    {"", "  ", "1. mp", " # INTRO ", "NOTE:", "SALES UP", "NO DATA 7"}

SampleTexts ==
    {JoinLines(ls) : ls \in UNION {[1..n -> SampleLines] : n \in 0..MaxLines}}

SegInit ==
    /\ segText \in SampleTexts
    /\ segResult = <<>>
    /\ segPc = "input"
    /\ synTemplate = NoTemplate
    /\ synPrompt = ""
    /\ synContext = "undefined"
    /\ synNow = 0
    /\ synOut = NoPending
    /\ synPc = "idle"
    /\ CtlInit
    /\ HdrIdle

SegExtract ==
    /\ segPc = "input"
    /\ segResult' = extractSections(segText)
    /\ segPc' = "done"
    /\ UNCHANGED segText
    /\ UNCHANGED <<hdrVars, synVars, ctlVars>>

SegNext == SegExtract

SegSpec == SegInit /\ [][SegNext]_vars

----------------------------------------------------------------------------
(* Content assembly over bounded templates and prompts *)

MaxSections == 3

\* sections of every type, with equal and with out-of-order order values
SampleSections ==
    {[title |-> "1. mp", placeholder |-> "[1. mp nyr ibryhsy]", order |-> 1, type |-> "header"],
     [title |-> "2. gr", placeholder |-> "[2. gr nyr ibryhsy]", order |-> 1, type |-> "content"],
     [title |-> "COSTS", placeholder |-> "[COSTS nyr ibryhsy]", order |-> 0, type |-> "table"],
     [title |-> "RISKS", placeholder |-> "[RISKS nyr ibryhsy]", order |-> 2, type |-> "list"],
     [title |-> "CHART", placeholder |-> "[CHART nyr ibryhsy]", order |-> 0, type |-> "image"]}

SynInit ==
    /\ synTemplate \in
          [filename : {"a.pdf"},
           type     : {"pdf"},
           content  : {""},
           sections : UNION {[1..n -> SampleSections] : n \in 0..MaxSections}]
    /\ synPrompt \in SamplePrompts
    /\ synContext \in Contexts
    /\ synNow \in 1..MaxClock
    /\ synOut = NoPending
    /\ synPc = "input"
    /\ SegIdle
    /\ CtlInit
    /\ HdrIdle

SynGenerate ==
    /\ synPc = "input"
    /\ synOut' = generateContentForTemplate(synTemplate, synPrompt, synContext, synNow)
    /\ synPc' = "done"
    /\ UNCHANGED <<synTemplate, synPrompt, synContext, synNow>>
    /\ UNCHANGED <<hdrVars, segVars, ctlVars>>

SynNext == SynGenerate

SynSpec == SynInit /\ [][SynNext]_vars

----------------------------------------------------------------------------
(* Segmentation claims.  The input is described line by line, independently *)
(* of the scan: which raw lines are headers, which are body lines, and      *)
(* which body lines lie under which header.                                 *)

LineView(text) ==
    LET raw      == SplitLines(text)
        trimmed  == [i \in 1..Len(raw) |-> Trim(raw[i])]
        hdr      == {i \in 1..Len(raw) : isHeader(trimmed[i])}
        body     == {i \in 1..Len(raw) : Truthy(trimmed[i]) /\ i \notin hdr}
        \* the position of the k-th header line (k from 1)
        headerAt == [k \in 1..Cardinality(hdr) |->
                        CHOOSE i \in hdr : Cardinality({j \in hdr : j < i}) = k - 1]
        \* the body lines between the k-th header line and the next one
        bodyOf   == [k \in 1..Cardinality(hdr) |->
                        {i \in body : /\ headerAt[k] < i
                                      /\ \A j \in hdr : j > headerAt[k] => i < j}]
    IN  [trimmed  |-> trimmed,
         hdr      |-> hdr,
         body     |-> body,
         headers  |-> Cardinality(hdr),
         headerAt |-> headerAt,
         bodyOf   |-> bodyOf]

\* C4: a section whose header is followed by a body line has placeholder
\* equal to the first such body line, not the auto-generated default.
C4_PlaceholderIsFirstBodyLine ==
    segPc = "done" =>
        LET v == LineView(segText)
        IN  \A k \in 1..v.headers :
                (k <= Len(segResult) /\ v.bodyOf[k] # {}) =>
                    segResult[k].placeholder = v.trimmed[Min(v.bodyOf[k])]

\* C5: for every input text extractSections returns a non-empty list whose
\* order values start at 0 and strictly increase with list position.
C5_OrdersStrictlyIncreasing ==
    segPc = "done" =>
        /\ Len(segResult) >= 1
        /\ segResult[1].order = 0
        /\ \A i \in 1..(Len(segResult) - 1) :
              segResult[i].order < segResult[i + 1].order
        /\ \A i, j \in 1..Len(segResult) :
              i # j => segResult[i].order # segResult[j].order

C5_Witness ==
    /\ segPc = "done"
    /\ Len(segResult) >= 3
    /\ LineView(segText).body # {}

\* C6: an input text without any header line yields exactly one section,
\* titled "전체 문서", with order 0 and type content.
C6_DefaultSectionWhenNoHeader ==
    (segPc = "done" /\ LineView(segText).hdr = {}) =>
        /\ Len(segResult) = 1
        /\ segResult[1].title = "jc ms"
        /\ segResult[1].order = 0
        /\ segResult[1].type = "content"

C6_Witness ==
    /\ segPc = "done"
    /\ LineView(segText).hdr = {}
    /\ Cardinality(LineView(segText).body) >= 2
    /\ Len(segResult) = 1

\* C7: a detected section has type content exactly when a body line lies
\* between its header line and the next header line, and type header
\* otherwise; no section gets type table, list or image.
C7_TypeContentIffBodyLine ==
    segPc = "done" =>
        LET v == LineView(segText)
        IN  /\ \A i \in 1..Len(segResult) :
                  segResult[i].type \in {"header", "content"}
            /\ v.headers > 0 =>
                  /\ Len(segResult) = v.headers
                  /\ \A k \in 1..v.headers :
                        segResult[k].type =
                            IF v.bodyOf[k] # {} THEN "content" ELSE "header"

\* two consecutive header lines, the first left with type header, next to a
\* section promoted to content
C7_Witness ==
    /\ segPc = "done"
    /\ LET v == LineView(segText)
       IN  /\ \E k \in 1..(v.headers - 1) :
                 /\ v.headerAt[k + 1] = v.headerAt[k] + 1
                 /\ segResult[k].type = "header"
           /\ \E k \in 1..v.headers :
                 /\ v.bodyOf[k] # {}
                 /\ segResult[k].type = "content"

----------------------------------------------------------------------------
(* Content assembly claims *)

\* the lines of content that are level-2 markdown headings
Level2Headings(content) ==
    SelectSeq(SplitLines(content), LAMBDA line : StartsWith(line, "## "))

\* the place of section i of the list in ascending order of the order
\* values, sections of equal order staying in list order
RankByOrder(sections, i) ==
    1 + Cardinality({j \in 1..Len(sections) :
            \/ sections[j].order < sections[i].order
            \/ (sections[j].order = sections[i].order /\ j < i)})

\* C8: the content generated for a template with N sections holds exactly N
\* level-2 headings, "## <title>" for each section, in ascending order of
\* the order values, sections of equal order in list order.
C8_OneHeadingPerSectionInOrder ==
    (synPc = "done" /\ ~synOut.threw) =>
        LET sections == synTemplate.sections
            h2       == Level2Headings(synOut.content)
        IN  /\ Len(h2) = Len(sections)
            /\ \A i \in 1..Len(sections) :
                  h2[RankByOrder(sections, i)] = "## " \o sections[i].title

\* What is left of C8 when no line of the prompt after its first starts as a
\* level-2 heading: exactly one heading per section, in stable ascending
\* order of the order values.
HeadingsUnderPlainPrompt ==
    ( /\ synPc = "done"
      /\ ~synOut.threw
      /\ Len(Level2Headings(synPrompt)) = 0 ) =>
        LET sections == synTemplate.sections
            h2       == Level2Headings(synOut.content)
        IN  /\ Len(h2) = Len(sections)
            /\ \A i \in 1..Len(sections) :
                  h2[RankByOrder(sections, i)] = "## " \o sections[i].title

\* the sections in stable ascending order of the order values
InRankOrder(sections) ==
    [r \in 1..Len(sections) |->
        sections[CHOOSE i \in 1..Len(sections) : RankByOrder(sections, i) = r]]

\* the lines a section is to contribute, by its type
BlockLines(section, prompt) ==
    <<"## " \o section.title, "">>
    \o (IF section.type = "header"
        THEN <<"### " \o section.title \o " ss", "">>
        ELSE <<>>)
    \o <<section.placeholder, "">>
    \o (CASE section.type = "content" ->
               <<"[" \o prompt \o "w grd " \o section.title \o " nyi ygn jsdnd.]", "">>
          [] section.type = "table" ->
               <<"| hm | ny | bg |", "|------|------|------|",
                 "| ys1 | dit1 | sm1 |", "| ys2 | dit2 | sm2 |", "">>
          [] section.type = "list" ->
               <<"- c bj hm", "- d bj hm", "- s bj hm", "">>
          [] OTHER -> <<>>)

RECURSIVE AllBlockLines(_, _, _)
AllBlockLines(ordered, prompt, i) ==
    IF i > Len(ordered) THEN <<>>
    ELSE BlockLines(ordered[i], prompt) \o AllBlockLines(ordered, prompt, i + 1)

\* the lines of a report: the title, the block of each section in order, one
\* footer naming the source file
ReportLines(template, prompt, now) ==
    <<"# " \o template.filename \o "e gbh bgs", "">>
    \o AllBlockLines(InRankOrder(template.sections), prompt, 1)
    \o <<"", "---", "**bgs ss wr**: D" \o ToString(now),
         "**gb tpr**: " \o template.filename, "">>

\* C17: line by line, the content is the title, then for each section in
\* order its level-2 heading, for a header section the level-3 detail
\* sub-heading, the placeholder line, and by type one bracketed line with the
\* prompt and the title (content), the fixed table (table), the fixed three
\* bullets (list) or nothing (header, image), then a single footer with the
\* source filename.
C17_BlockPerSectionType ==
    (synPc = "done" /\ ~synOut.threw) =>
        SplitLines(synOut.content) = ReportLines(synTemplate, synPrompt, synNow)

\* What is left of C17 when the prompt is a single line: every report is
\* line by line what the section types prescribe.
BlocksUnderOneLinePrompt ==
    (synPc = "done" /\ ~synOut.threw /\ Len(SplitLines(synPrompt)) = 1) =>
        SplitLines(synOut.content) = ReportLines(synTemplate, synPrompt, synNow)

----------------------------------------------------------------------------
(* Report generation claims *)

\* the calls that found their template and whose content assembly threw
ThrewInAssembly(k) == gens[k].reportId # "" /\ gens[k].pending.threw

\* C1: when content assembly throws, the call returns {reportId: "",
\* status: failed, error: <message>} and commits nothing: the report
\* registry holds no entry of the failed attempt.
C1_FailedAssemblyCommitsNothing ==
    \A k \in 1..Len(gens) :
        (gens[k].pc = "returned" /\ ThrewInAssembly(k)) =>
            /\ gens[k].response.reportId = ""
            /\ gens[k].response.status = "failed"
            /\ gens[k].response.error # ""
            /\ gens[k].reportId \notin DOMAIN reports

\* C2: no report with status processing is visible to a caller of getReport
\* or getReports, and a generation request contributes at most one entry of
\* the report registry.
C2_NoProcessingReportVisible ==
    /\ \A r \in lastRead : r.status # "processing"
    /\ \A id \in DOMAIN reports :
          Cardinality({k \in 1..Len(gens) : gens[k].reportId = id}) = 1

\* C3: a report enters the registry as processing with empty content; the
\* only change ever made to a stored report is processing -> completed, with
\* content and completed_at set in the same step; nothing is removed; no
\* stored report is pending or failed.
C3_ReportLifecycle ==
    [][ /\ \A id \in DOMAIN reports' \ DOMAIN reports :
              /\ reports'[id].status = "processing"
              /\ reports'[id].content = ""
              /\ reports'[id].completed_at = 0
        /\ \A id \in DOMAIN reports :
              /\ id \in DOMAIN reports'
              /\ \/ reports'[id] = reports[id]
                 \/ /\ reports[id].status = "processing"
                    /\ reports'[id].status = "completed"
                    /\ reports'[id].content # ""
                    /\ reports'[id].completed_at # 0
                    /\ reports'[id] = [reports[id] EXCEPT
                                          !.status = "completed",
                                          !.content = reports'[id].content,
                                          !.completed_at = reports'[id].completed_at]
        /\ \A id \in DOMAIN reports' :
              reports'[id].status \in {"processing", "completed"}
      ]_vars

\* one report completed while another is still processing
C3_Witness ==
    /\ \E id \in DOMAIN reports :
          /\ reports[id].status = "completed"
          /\ reports[id].content # ""
          /\ reports[id].completed_at # 0
    /\ \E id \in DOMAIN reports : reports[id].status = "processing"

\* content with the generation timestamp of the footer blanked
StripStamp(content) ==
    LET lines == SplitLines(content)
    IN  [i \in 1..Len(lines) |->
            IF StartsWith(lines[i], FooterStamp) THEN FooterStamp ELSE lines[i]]

\* the calls that found their template and whose content assembly returned
Assembled(k) == gens[k].reportId # "" /\ ~gens[k].pending.threw

C10_UnknownTemplateFailsFast ==
    [][ ( /\ Len(gens') = Len(gens) + 1
          /\ gens'[Len(gens')].templateId \notin DOMAIN templates ) =>
            /\ gens'[Len(gens')].pc = "returned"
            /\ gens'[Len(gens')].response.status = "failed"
            /\ gens'[Len(gens')].response.reportId = ""
            /\ gens'[Len(gens')].response.error # ""
            /\ gens'[Len(gens')].response.content = ""
            /\ gens'[Len(gens')].pending = NoPending
            /\ nextUuid' = nextUuid
            /\ reports' = reports
            /\ templates' = templates
      ]_vars

\* a request for an unknown template id has failed while both registries
\* hold entries
C10_Witness ==
    /\ \E k \in 1..Len(gens) :
          /\ gens[k].templateId \notin DOMAIN templates
          /\ gens[k].pc = "returned"
          /\ gens[k].response.status = "failed"
    /\ DOMAIN templates # {}
    /\ DOMAIN reports # {}

\* the text from its first header line on
FromFirstHeader(text) ==
    LET raw == SplitLines(text)
        v   == LineView(text)
    IN  JoinLines(SubSeq(raw, Min(v.hdr), Len(raw)))

\* C16: for an input text with at least one header line, the sections are
\* as many as the header lines; the i-th section (from 0) has the i-th header
\* line, trimmed, as title and i as order; the lines before the first header
\* line do not affect the result.
C16_SectionsMatchHeaderLines ==
    (segPc = "done" /\ LineView(segText).hdr # {}) =>
        LET v == LineView(segText)
        IN  /\ Len(segResult) = v.headers
            /\ \A k \in 1..v.headers :
                  /\ segResult[k].title = v.trimmed[v.headerAt[k]]
                  /\ segResult[k].order = k - 1
            /\ extractSections(FromFirstHeader(segText)) = segResult

\* two header lines, a title that needed trimming, and a body line before
\* the first header line
C16_Witness ==
    /\ segPc = "done"
    /\ LET v == LineView(segText)
       IN  /\ v.headers >= 2
           /\ \E i \in v.body : i < Min(v.hdr)
           /\ \E k \in 1..v.headers : v.trimmed[v.headerAt[k]] # SplitLines(segText)[v.headerAt[k]]
           /\ Len(segResult) = v.headers

----------------------------------------------------------------------------
(* Header classification over lines of up to a hundred characters and more *)

MaxFill == 100

RECURSIVE Fill(_)
Fill(n) == IF n = 0 THEN "" ELSE "X" \o Fill(n - 1)

\* how a sample line starts: plainly, as a markdown heading, with a
\* carriage return inside
LinePrefixes == {"", "# ", "Y\r"}

\* how a sample line ends: plainly, with a colon, with one of the keywords
LineSuffixes == {"", ":", " mp", " gy", " bg", " gr", " yy"}

SampleHeaderLines ==
    {p \o Fill(n) \o e : p \in LinePrefixes, n \in 0..MaxFill, e \in LineSuffixes}

HdrInit ==
    /\ hdrLine \in SampleHeaderLines
    /\ hdrResult = FALSE
    /\ hdrPc = "input"
    /\ SegIdle
    /\ SynIdle
    /\ CtlInit

HdrClassify ==
    /\ hdrPc = "input"
    /\ hdrResult' = isHeader(hdrLine)
    /\ hdrPc' = "done"
    /\ UNCHANGED hdrLine
    /\ UNCHANGED <<segVars, synVars, ctlVars>>

HdrNext == HdrClassify

HdrSpec == HdrInit /\ [][HdrNext]_vars

Keywords == {"mp", "gy", "bg", "gr", "yy"}

HasKeyword(line) == \E k \in Keywords : Includes(line, k)

HasLineTerminator(line) == \E j \in 1..Len(line) : ~IsDot(Char(line, j))

\* C14: a line that no marker pattern matches is a header only when it is
\* shorter than 100 characters and contains one of the keywords, whichever
\* keyword it is; a line of 100 characters or more that no marker pattern
\* matches is never a header.
C14_KeywordRuleNeedsShortLine ==
    (hdrPc = "done" /\ ~headerPatterns(hdrLine)) =>
        /\ hdrResult => (Len(hdrLine) < 100 /\ HasKeyword(hdrLine))
        /\ Len(hdrLine) >= 100 => ~hdrResult

\* C15 as stated: every line of 2 to 99 characters that ends with a colon
\* is a header.
C15_ColonLineUnder100IsHeader ==
    (/\ hdrPc = "done"
     /\ Len(hdrLine) >= 2
     /\ Len(hdrLine) <= 99
     /\ Char(hdrLine, Len(hdrLine)) = ":") => hdrResult

\* C15: every line of 2 to 51 characters that ends with a colon and has no
\* line terminator inside is a header; a longer line that ends with a colon
\* is a header only if another pattern or the keyword clause makes it one.
C15_ColonLineUpTo51IsHeader ==
    (hdrPc = "done" /\ Len(hdrLine) >= 2 /\ Char(hdrLine, Len(hdrLine)) = ":") =>
        /\ (Len(hdrLine) <= 51 /\ ~HasLineTerminator(hdrLine)) => hdrResult
        /\ (Len(hdrLine) > 51 /\ hdrResult) =>
              \/ PatNumbered(hdrLine) \/ PatHangul(hdrLine) \/ PatAlpha(hdrLine)
              \/ PatMarkdown(hdrLine) \/ PatBracket(hdrLine)
              \/ keywordClause(hdrLine)

\* the longest plain line the colon pattern takes has been classified
C15_Witness ==
    /\ hdrPc = "done"
    /\ hdrLine = Fill(50) \o ":"
    /\ hdrResult

----------------------------------------------------------------------------
(* Upload claims *)

\* the uploads whose parseFile succeeds in this step
StoredInStep ==
    {k \in 1..Len(uploads) : uploads[k].pc = "parsing" /\ uploads'[k].pc = "cleanup"}

\* C11: under any interleaving of uploads, an upload whose extraction
\* succeeds adds exactly one entry to the template registry, under an id
\* that was no key before; an upload that fails (rejected format, no file,
\* parser error) adds none; no entry is overwritten or removed.
C11_OneInsertionPerSuccessfulUpload ==
    [][ /\ DOMAIN templates' \ DOMAIN templates =
              {uploads'[k].templateId : k \in StoredInStep}
        /\ Cardinality(DOMAIN templates' \ DOMAIN templates) = Cardinality(StoredInStep)
        /\ \A k \in StoredInStep :
              /\ ~uploads[k].parsed.threw
              /\ uploads'[k].templateId \notin DOMAIN templates
              /\ templates'[uploads'[k].templateId] = uploads[k].parsed.template
        /\ \A id \in DOMAIN templates :
              id \in DOMAIN templates' /\ templates'[id] = templates[id]
        /\ \A k \in 1..Len(uploads') :
              uploads'[k].pc \in {"cleanup_catch", "thrown"} =>
                  /\ uploads'[k].templateId = ""
                  /\ k \notin StoredInStep
        /\ \A j, k \in 1..Len(uploads') :
              (j # k /\ uploads'[j].templateId # "") =>
                  uploads'[j].templateId # uploads'[k].templateId
        /\ Cardinality(DOMAIN templates') =
              Cardinality({k \in 1..Len(uploads') : uploads'[k].templateId # ""})
      ]_vars

\* two uploads in flight at once, the later one stored first
C11_Witness ==
    /\ Len(uploads) = 2
    /\ uploads[1].pc = "parsing"
    /\ uploads[2].pc = "cleanup"
    /\ uploads[2].templateId \in DOMAIN templates

C13_TemplatesNeverChange ==
    [][ /\ \A id \in DOMAIN templates :
              /\ id \in DOMAIN templates'
              /\ templates'[id].filename = templates[id].filename
              /\ templates'[id].type = templates[id].type
              /\ templates'[id].content = templates[id].content
              /\ templates'[id].sections = templates[id].sections
        /\ Len(gens') > Len(gens) => \A id \in DOMAIN templates : templates'[id] = templates[id]
      ]_vars

\* a successful and a failed call have run on a template of two sections,
\* which is still as it was uploaded
C13_Witness ==
    \E i, j \in 1..Len(gens) :
        /\ gens[i].templateId = gens[j].templateId
        /\ gens[i].response.status = "completed"
        /\ gens[j].response.status = "failed"
        /\ gens[j].reportId # ""
        /\ Len(templates[gens[i].templateId].sections) >= 2
        /\ \E k \in 1..Len(uploads) :
              /\ uploads[k].templateId = gens[i].templateId
              /\ templates[gens[i].templateId] = uploads[k].parsed.template

====
